---------------------------- MODULE Spec2Model ----------------------------
(***************************************************************************)
(* Model of the brand-news crawler (src/server.js, lines 56-223, and the   *)
(* earlier sequential variant in src/unnamed/part_000, lines 33-193).      *)
(*                                                                         *)
(* JavaScript values are modelled as tagged records:                       *)
(*   null                [kind |-> "null"]                                 *)
(*   an array            [kind |-> "array",  items |-> <<...>>]            *)
(*   a result object     [kind |-> "object", brand |-> .., articles |-> ..]*)
(* Strings whose characters matter (title, paragraph text, content) are    *)
(* sequences of one-character strings; " ", "\n" and "\t" are whitespace.  *)
(* Time is in milliseconds, as Date.now() gives it.                        *)
(***************************************************************************)
EXTENDS Integers, Sequences, FiniteSets, TLC

VARIABLES
    now,       \* Date.now()
    cache,     \* the files of CACHE_DIR: cache name -> file or no file
    req,       \* one record per /crawl_news request (handler position, locals, history)
    web,       \* the search pages the search engine can answer with
    cacheOp,   \* the last direct call of a cache helper and what it returned
    arg,       \* the argument of a function under test
    ret        \* what that function returned

vars == <<now, cache, req, web, cacheOp, arg, ret>>

-----------------------------------------------------------------------------
(* Bounds of the model *)

NumReqs == 2          \* requests the server receives
MaxTicks == 2         \* the clock advances at most this many times
ClockStep == 30000    \* milliseconds per clock advance

-----------------------------------------------------------------------------
(* JavaScript values *)

Null == [kind |-> "null"]

Array(items) == [kind |-> "array", items |-> items]

\* an empty array taken for falsy
TruthyNonEmpty(v) == v.kind # "null" /\ (v.kind = "array" => Len(v.items) > 0)

Truthy(v) == v.kind # "null"

Undefined == "undefined"

\* JSON.stringify followed by JSON.parse, for the values the program stores:
\* a property whose value is undefined is dropped, everything else is kept.
JSONArticle(a) ==
    IF "relevance" \in DOMAIN a /\ a.relevance = Undefined
    THEN [url |-> a.url, title |-> a.title, content |-> a.content]
    ELSE a

JSONRoundTrip(v) ==
    IF v.kind = "object"
    THEN [kind |-> "object", brand |-> v.brand,
          articles |-> [i \in 1..Len(v.articles) |-> JSONArticle(v.articles[i])]]
    ELSE v

-----------------------------------------------------------------------------
(* Cache helpers *)

CACHE_TTL == 60 * 1000

Brands == {"Acme"}

getCachePath(name, suffix) == <<name, suffix>>

CacheNames == {getCachePath(b, s) : b \in Brands, s \in {"search", "data"}}

NoFile == [kind |-> "nofile"]

\* a file whose content JSON.parse rejects
Corrupt == [kind |-> "corrupt"]

\* what a call gives that ends in an exception
Thrown == [kind |-> "thrown"]

existsSync(c, file) == c[file].kind # "nofile"

\* the comparison with <= in place of <
CacheFreshInclusive(timestamp, t) == t - timestamp <= CACHE_TTL

\* Date.now() - timestamp < CACHE_TTL
CacheFresh(timestamp, t) == t - timestamp < CACHE_TTL

\* writeFileSync with the flag that keeps a file that is already there
saveToCacheKeepExisting(c, file, data, t) ==
    IF existsSync(c, file) THEN c
    ELSE [c EXCEPT ![file] = [kind |-> "file", timestamp |-> t, data |-> JSONRoundTrip(data)]]

saveToCache(c, file, data, t) ==
    [c EXCEPT ![file] = [kind |-> "file", timestamp |-> t, data |-> JSONRoundTrip(data)]]

\* the freshness test inverted
loadFromCacheInverted(c, file, t) ==
    IF ~existsSync(c, file) THEN Null
    ELSE IF c[file] = Corrupt THEN Thrown
    ELSE IF ~CacheFresh(c[file].timestamp, t) THEN c[file].data
    ELSE Null

\* what loadFromCache returns; Thrown when JSON.parse throws
loadFromCache(c, file, t) ==
    IF ~existsSync(c, file) THEN Null
    ELSE IF c[file] = Corrupt THEN Thrown
    ELSE IF CacheFresh(c[file].timestamp, t) THEN c[file].data
    ELSE Null

\* a hit that renews the file's timestamp (a sliding expiry)
loadFromCacheFilesTouch(c, file, t) ==
    IF existsSync(c, file) /\ c[file] # Corrupt
    THEN IF CacheFresh(c[file].timestamp, t)
         THEN [c EXCEPT ![file].timestamp = t]
         ELSE [c EXCEPT ![file] = NoFile]
    ELSE c

\* the files loadFromCache leaves behind (none removed when JSON.parse throws)
loadFromCacheFiles(c, file, t) ==
    IF existsSync(c, file) /\ c[file] # Corrupt /\ ~CacheFresh(c[file].timestamp, t)
    THEN [c EXCEPT ![file] = NoFile]
    ELSE c

-----------------------------------------------------------------------------
(* Strings as sequences of characters *)

Whitespace == {" ", "\n", "\t"}

IsWs(ch) == ch \in Whitespace

Rep(ch, n) == [i \in 1..n |-> ch]

\* String.prototype.trim
trim(s) ==
    LET solid == {i \in 1..Len(s) : ~IsWs(s[i])}
        first == CHOOSE i \in solid : \A j \in solid : i <= j
        last  == CHOOSE i \in solid : \A j \in solid : j <= i
    IN IF solid = {} THEN <<>> ELSE SubSeq(s, first, last)

\* Array.prototype.join(" ")
RECURSIVE join(_)
join(ps) ==
    IF Len(ps) = 0 THEN <<>>
    ELSE IF Len(ps) = 1 THEN ps[1]
    ELSE ps[1] \o <<" ">> \o join(Tail(ps))

\* .replace(/\s+/g, " "): every maximal run of whitespace becomes one space
collapseWhitespace(s) ==
    LET idx  == [i \in 1..Len(s) |-> i]
        keep(i) == ~IsWs(s[i]) \/ i = 1 \/ ~IsWs(s[i - 1])
        kept == SelectSeq(idx, keep)
    IN [j \in 1..Len(kept) |-> IF IsWs(s[kept[j]]) THEN " " ELSE s[kept[j]]]

\* .slice(0, n)
slice(s, n) == SubSeq(s, 1, IF Len(s) < n THEN Len(s) ELSE n)

-----------------------------------------------------------------------------
(* Link discovery: the parse of the search page in searchGoogleNews *)

\* An href is a sequence of tokens; "/url?q=", "http://", "https://" and "&" are
\* the tokens the code looks at, every other token is text without "&".
Schemes == {"http://", "https://"}

\* href.includes("/url?q=")
includesUrlQ(href) == \E i \in 1..Len(href) : href[i] = "/url?q="

\* href.match(/\/url\?q=(https?:\/\/[^&]+)/): the positions where the pattern matches
matchStarts(href) ==
    {i \in 1..(Len(href) - 2) :
        href[i] = "/url?q=" /\ href[i + 1] \in Schemes /\ href[i + 2] # "&"}

\* match[1] of the leftmost match: from the scheme up to the next "&"
matchGroup(href) ==
    LET i == CHOOSE k \in matchStarts(href) : \A m \in matchStarts(href) : k <= m
        stops == {j \in (i + 2)..Len(href) : href[j] = "&"}
        stop == IF stops = {} THEN Len(href) + 1
                ELSE CHOOSE j \in stops : \A m \in stops : j <= m
    IN SubSeq(href, i + 1, stop - 1)

\* $("a").each(...): the rawLinks pushed, in document order
RECURSIVE rawLinks(_)
rawLinks(doc) ==
    IF Len(doc) = 0 THEN <<>>
    ELSE LET el == doc[Len(doc)]
             before == rawLinks(SubSeq(doc, 1, Len(doc) - 1))
         IN IF el.hasHref /\ includesUrlQ(el.href) /\ matchStarts(el.href) # {}
            THEN Append(before, matchGroup(el.href))
            ELSE before

MaxLinks == 10

\* the slice one element too long
top10Eleven(doc) == slice(rawLinks(doc), MaxLinks + 1)

\* rawLinks.slice(0, 10)
top10(doc) == slice(rawLinks(doc), MaxLinks)

-----------------------------------------------------------------------------
(* Article extraction *)

MaxContent == 500

\* What axios.get(url) gives: [kind |-> "throw"] (HTTP error status, transport
\* failure, timeout) or [kind |-> "page", title, paragraphs], the text of the
\* title element and of the p elements.
paragraphsText(page) ==
    slice(collapseWhitespace(join([i \in 1..Len(page.paragraphs) |-> trim(page.paragraphs[i])])),
          MaxContent)

\* scrapeArticle of src/server.js
scrapeArticle(url, res) ==
    IF res.kind = "throw" THEN Null
    ELSE LET title == trim(res.title)
             paragraphs == paragraphsText(res)
         IN IF title = <<>> \/ paragraphs = <<>> THEN Null
            ELSE [kind |-> "article", url |-> url, title |-> title, content |-> paragraphs]

\* scrapeArticle of the sequential variant: no trim, no whitespace collapse
scrapeArticleSeq(url, res) ==
    IF res.kind = "throw" THEN Null
    ELSE LET title == res.title
             paragraphs == slice(join(res.paragraphs), MaxContent)
         IN IF title = <<>> \/ paragraphs = <<>> THEN Null
            ELSE [kind |-> "article", url |-> url, title |-> title, content |-> paragraphs]

-----------------------------------------------------------------------------
(* Relevance classification *)

candidate_labels == <<"business", "finance", "economy", "earnings", "stock", "unrelated">>

\* Scores are in hundredths: 40 is 0.4.
Threshold == 40

Yes == "Yes, it is relevant"
No == "No, it is not relevant"
Error == "Error: Unable to check relevance"
Throws == "throws"

\* An item of response.data: [kind |-> "null"], or [kind |-> "item", hasLabels,
\* labels, hasScores, scores]; a missing property has has... = FALSE.

\* the threshold compared with < in place of <=
itemVerdictLax(item) ==
    IF item.kind = "null" \/ ~item.hasLabels THEN Throws
    ELSE IF Len(item.labels) > 0 /\ item.labels[1] = "unrelated" THEN No
    ELSE IF ~item.hasScores THEN Throws
    ELSE IF Len(item.scores) > 0 /\ item.scores[1] < Threshold THEN No
    ELSE Yes

\* ({ labels, scores }) => labels[0] === "unrelated" || scores[0] <= 0.4 ? No : Yes
\* (destructuring null, or indexing a missing property, throws a TypeError;
\* indexing an empty array gives undefined, which compares false)
itemVerdict(item) ==
    IF item.kind = "null" \/ ~item.hasLabels THEN Throws
    ELSE IF Len(item.labels) > 0 /\ item.labels[1] = "unrelated" THEN No
    ELSE IF ~item.hasScores THEN Throws
    ELSE IF Len(item.scores) > 0 /\ item.scores[1] <= Threshold THEN No
    ELSE Yes

\* the catch block returning an empty list
checkRelevanceBatchEmptyOnError(texts, response) ==
    LET failed == <<>>
    IN IF response.kind = "throw" THEN failed
       ELSE IF response.data.kind # "array" THEN failed
       ELSE LET items == response.data.items
                mapped == [i \in 1..Len(items) |-> itemVerdict(items[i])]
            IN IF \E i \in 1..Len(items) : mapped[i] = Throws THEN failed ELSE mapped

\* What axios.post gives: [kind |-> "throw"], or [kind |-> "data", data |-> d]
\* with d an Array(...) of items or a value that has no map method.
checkRelevanceBatch(texts, response) ==
    LET failed == Rep(Error, Len(texts))
    IN IF response.kind = "throw" THEN failed
       ELSE IF response.data.kind # "array" THEN failed
       ELSE LET items == response.data.items
                mapped == [i \in 1..Len(items) |-> itemVerdict(items[i])]
            IN IF \E i \in 1..Len(items) : mapped[i] = Throws THEN failed ELSE mapped

BusinessLabels == {"business", "finance", "economy", "earnings", "stock"}

\* checkRelevance of the sequential variant; result is what response.json() gives
checkRelevance(response) ==
    IF response.kind = "throw" THEN Error
    ELSE LET result == response.data
         IN IF result.kind = "null" THEN Error
            ELSE IF ~result.hasScores THEN No
            ELSE IF ~(Len(result.scores) > 0 /\ result.scores[1] > Threshold) THEN No
            ELSE IF ~result.hasLabels THEN Error
            ELSE IF Len(result.labels) > 0 /\ result.labels[1] \in BusinessLabels THEN Yes
            ELSE No

-----------------------------------------------------------------------------
(* What the outside world can answer *)

MaxFanout == 3        \* result links on a search page, when one run is examined

\* Anchors of a search page.  dest is the article URL the anchor was built to
\* wrap (<<>> when it wraps none); the program never reads it.
NoHref == [hasHref |-> FALSE, href |-> <<>>, dest |-> <<>>]

PlainLink == [hasHref |-> TRUE, href |-> <<"https://", "maps.google.com">>, dest |-> <<>>]

WrappedOther ==
    [hasHref |-> TRUE, href |-> <<"/url?q=", "/search?q=x", "&", "sa=U">>, dest |-> <<>>]

Wrapped(site) ==
    [hasHref |-> TRUE, href |-> <<"/url?q=", "https://", site, "&", "sa=U">>,
     dest |-> <<"https://", site>>]

WrappedBare(site) ==
    [hasHref |-> TRUE, href |-> <<"/url?q=", "http://", site>>, dest |-> <<"http://", site>>]

\* a search page with n result links, each after a link that is no result
SearchPage(n) ==
    [i \in 1..(2 * n) |-> IF i % 2 = 1 THEN PlainLink ELSE Wrapped(ToString(i \div 2))]

\* the pages answered while the server handles several requests, and while
\* one run is examined
FewLinks == {SearchPage(0), SearchPage(1)}

ManyLinks == {SearchPage(n) : n \in 0..MaxFanout}

GoodPage == [kind |-> "page", title |-> <<" ", "T">>,
             paragraphs |-> << <<"a", " ", "\n", "b">>, <<"c">> >>]

EmptyPage == [kind |-> "page", title |-> <<"T">>, paragraphs |-> <<>>]

Throw == [kind |-> "throw"]

ScrapeResults == {Throw, EmptyPage, GoodPage}

Item(labels, scores) ==
    [kind |-> "item", hasLabels |-> TRUE, labels |-> labels, hasScores |-> TRUE, scores |-> scores]

RelevantItem == Item(<<"business", "unrelated">>, <<55, 30>>)

UnrelatedItem == Item(<<"unrelated", "business">>, <<90, 10>>)

Data(d) == [kind |-> "data", data |-> d]

\* answers to a batch of n texts: a failed call, a body that is no list, and
\* lists of n - 1, n and n + 1 items
ClassifyResponses(n) ==
    {Throw, Data([kind |-> "other"])} \cup
    {Data(Array(items)) : items \in UNION {[1..m -> {RelevantItem, UnrelatedItem}] :
                                            m \in {k \in {n - 1, n, n + 1} : k >= 0}}}

-----------------------------------------------------------------------------
(* The /crawl_news handler *)

Reqs == DOMAIN req

Pending == [kind |-> "pending"]

NoResponse == [status |-> 0]

\* res.status(400).json(...), res.status(500).json(...), res.json(v)
MissingBrand == [status |-> 400, body |-> [error |-> "Missing brand query"]]

WentWrong == [status |-> 500, body |-> [error |-> "Something went wrong"]]

\* What becomes of a request whose async handler rejects (loadFromCache of
\* line 181 is outside the try block): Express 4 ignores the rejection and
\* sends nothing, Express 5 passes it to its error handler, which sends a 500.
FrameworkError == [status |-> 500, body |-> [error |-> "Internal Server Error"]]

HandlerRejected == {NoResponse, FrameworkError}

json(v) == [status |-> 200, body |-> JSONRoundTrip(v)]

\* A request not yet received.  pc is the await the handler is suspended at;
\* searchOutcome, classifyOutcome, settled, wrote, savedAt and the n...
\* counters record what happened and are not read by the handler.
IdleReq ==
    [pc |-> "idle", brand |-> "", links |-> <<>>, fetched |-> <<>>,
     response |-> NoResponse,
     searchOutcome |-> "none", classifyOutcome |-> "none", settled |-> <<>>,
     nSearch |-> 0, nScrape |-> 0, nClassify |-> 0,
     wrote |-> {}, savedAt |-> -1]

\* resuming as soon as one promise has settled
PromiseAny(fetched) ==
    Len(fetched) = 0 \/ \E i \in 1..Len(fetched) : fetched[i] # Pending

\* await Promise.all(articlePromises) resumes when no promise is pending
PromiseAll(fetched) == \A i \in 1..Len(fetched) : fetched[i] # Pending

\* articlesFetched, in the order of links
articlesFetched(q) == q.fetched

\* the articles pushed as their requests settle
filteredArticlesAsSettled(q) ==
    LET isArticle(a) == a.kind = "article"
    IN SelectSeq([j \in 1..Len(q.settled) |-> q.fetched[q.settled[j]]], isArticle)

\* articlesFetched.filter((article) => article !== null)
filteredArticles(q) ==
    LET isArticle(a) == a.kind = "article"
    IN SelectSeq(articlesFetched(q), isArticle)

\* filteredArticles.map(article => article.content)
texts(q) == [i \in 1..Len(filteredArticles(q)) |-> filteredArticles(q)[i].content]

\* checkRelevanceBatch(texts) up to its await: axios.post is issued
issueClassify(q) == [q EXCEPT !.pc = "classify", !.nClassify = @ + 1]

\* links.map(async link => scrapeArticle(link)) issues one axios.get per link,
\* then await Promise.all; with no link it resumes at once
issueScrapes(q, links) ==
    LET q1 == [q EXCEPT !.pc = "scrape", !.links = links,
                        !.fetched = [i \in 1..Len(links) |-> Pending],
                        !.nScrape = @ + Len(links)]
    IN IF PromiseAll(q1.fetched) THEN issueClassify(q1) ELSE q1

\* The handler from its first line to its first pending await.
Receive(r, brand) ==
    /\ req[r].pc = "idle"
    /\ \A o \in Reqs : o < r => req[o].pc # "idle"
    /\ LET q0 == [req[r] EXCEPT !.brand = brand]
           cacheKey == getCachePath(brand, "data")
           searchKey == getCachePath(brand, "search")
           cached == loadFromCache(cache, cacheKey, now)
           c1 == loadFromCacheFiles(cache, cacheKey, now)
           cachedLinks == loadFromCache(c1, searchKey, now)
           c2 == loadFromCacheFiles(c1, searchKey, now)
       IN IF brand = ""
          THEN /\ req' = [req EXCEPT ![r] = [q0 EXCEPT !.pc = "done", !.response = MissingBrand]]
               /\ cache' = cache
          ELSE IF cached = Thrown
          THEN /\ \E sent \in HandlerRejected :
                    req' = [req EXCEPT ![r] = [q0 EXCEPT !.pc = "rejected", !.response = sent]]
               /\ cache' = cache
          ELSE IF cachedLinks = Thrown
          THEN /\ req' = [req EXCEPT ![r] = [q0 EXCEPT !.pc = "done", !.response = WentWrong]]
               /\ cache' = c1
          ELSE IF Truthy(cached)
          THEN /\ req' = [req EXCEPT ![r] = [q0 EXCEPT !.pc = "done", !.response = json(cached)]]
               /\ cache' = c1
          ELSE IF Truthy(cachedLinks)
          THEN /\ req' = [req EXCEPT ![r] = issueScrapes(q0, cachedLinks.items)]
               /\ cache' = c2
          ELSE /\ req' = [req EXCEPT ![r] = [q0 EXCEPT !.pc = "search", !.nSearch = @ + 1]]
               /\ cache' = c2
    /\ UNCHANGED <<now, web, cacheOp, arg, ret>>

\* axios.get of the search page resolves with the document doc
SearchResolves(r, doc) ==
    /\ req[r].pc = "search"
    /\ doc \in web
    /\ LET searchKey == getCachePath(req[r].brand, "search")
           q1 == [req[r] EXCEPT !.searchOutcome = "ok", !.wrote = @ \cup {searchKey}]
       IN /\ cache' = saveToCache(cache, searchKey, Array(top10(doc)), now)
          /\ req' = [req EXCEPT ![r] = issueScrapes(q1, top10(doc))]
    /\ UNCHANGED <<now, web, cacheOp, arg, ret>>

\* the rejection swallowed: searchGoogleNews goes on with no link
SearchRejectsSwallowed(r) ==
    /\ req[r].pc = "search"
    /\ LET searchKey == getCachePath(req[r].brand, "search")
           q1 == [req[r] EXCEPT !.searchOutcome = "failed", !.wrote = @ \cup {searchKey}]
       IN /\ cache' = saveToCache(cache, searchKey, Array(<<>>), now)
          /\ req' = [req EXCEPT ![r] = issueScrapes(q1, <<>>)]
    /\ UNCHANGED <<now, web, cacheOp, arg, ret>>

\* axios.get of the search page rejects (or cheerio.load throws): the handler's catch
SearchRejects(r) ==
    /\ req[r].pc = "search"
    /\ req' = [req EXCEPT ![r] = [@ EXCEPT !.pc = "done", !.searchOutcome = "failed",
                                           !.response = WentWrong]]
    /\ UNCHANGED <<now, cache, web, cacheOp, arg, ret>>

\* the axios.get of link i settles with res; scrapeArticle returns
ScrapeSettles(r, i, res) ==
    /\ req[r].pc = "scrape"
    /\ i \in 1..Len(req[r].links)
    /\ req[r].fetched[i] = Pending
    /\ LET q1 == [req[r] EXCEPT !.fetched[i] = scrapeArticle(req[r].links[i], res),
                                !.settled = Append(@, i)]
       IN req' = [req EXCEPT ![r] = IF PromiseAll(q1.fetched) THEN issueClassify(q1) ELSE q1]
    /\ UNCHANGED <<now, cache, web, cacheOp, arg, ret>>

\* lines 202-208 with relevanceResults given
compose(q, relevanceResults) ==
    LET fa == filteredArticles(q)
    IN [kind |-> "object", brand |-> q.brand,
        articles |-> [idx \in 1..Len(fa) |->
            [kind |-> "article", url |-> fa[idx].url, title |-> fa[idx].title,
             content |-> fa[idx].content,
             relevance |-> IF idx <= Len(relevanceResults)
                           THEN relevanceResults[idx] ELSE Undefined]]]

\* an empty batch taken for a failure: 500 and nothing saved
ClassifySettlesNoEmpty(r) ==
    /\ req[r].pc = "classify"
    /\ \E response \in ClassifyResponses(Len(texts(req[r]))) :
       LET q == req[r]
           cacheKey == getCachePath(q.brand, "data")
           result == compose(q, checkRelevanceBatch(texts(q), response))
           outcome == IF response.kind = "throw" THEN "threw" ELSE "returned"
       IN IF Len(texts(q)) = 0
          THEN /\ cache' = cache
               /\ req' = [req EXCEPT ![r] =
                     [q EXCEPT !.pc = "done", !.response = WentWrong,
                               !.classifyOutcome = outcome]]
          ELSE /\ cache' = saveToCache(cache, cacheKey, result, now)
               /\ req' = [req EXCEPT ![r] =
                     [q EXCEPT !.pc = "done", !.response = json(result),
                               !.classifyOutcome = outcome,
                               !.wrote = @ \cup {cacheKey}, !.savedAt = now]]
    /\ UNCHANGED <<now, web, cacheOp, arg, ret>>

\* a result whose classification failed, or with no article, not saved
ClassifySettlesSkipDegraded(r) ==
    /\ req[r].pc = "classify"
    /\ \E response \in ClassifyResponses(Len(texts(req[r]))) :
       LET q == req[r]
           cacheKey == getCachePath(q.brand, "data")
           result == compose(q, checkRelevanceBatch(texts(q), response))
           degraded == response.kind = "throw" \/ Len(result.articles) = 0
       IN /\ cache' = IF degraded THEN cache ELSE saveToCache(cache, cacheKey, result, now)
          /\ req' = [req EXCEPT ![r] =
                [q EXCEPT !.pc = "done", !.response = json(result),
                          !.classifyOutcome = IF response.kind = "throw" THEN "threw" ELSE "returned",
                          !.wrote = IF degraded THEN @ ELSE @ \cup {cacheKey},
                          !.savedAt = now]]
    /\ UNCHANGED <<now, web, cacheOp, arg, ret>>

\* axios.post settles with response; checkRelevanceBatch returns, the handler
\* assigns the verdicts, saves and responds
ClassifySettles(r) ==
    /\ req[r].pc = "classify"
    /\ \E response \in ClassifyResponses(Len(texts(req[r]))) :
       LET q == req[r]
           cacheKey == getCachePath(q.brand, "data")
           result == compose(q, checkRelevanceBatch(texts(q), response))
       IN /\ cache' = saveToCache(cache, cacheKey, result, now)
          /\ req' = [req EXCEPT ![r] =
                [q EXCEPT !.pc = "done", !.response = json(result),
                          !.classifyOutcome = IF response.kind = "throw" THEN "threw" ELSE "returned",
                          !.wrote = @ \cup {cacheKey}, !.savedAt = now]]
    /\ UNCHANGED <<now, web, cacheOp, arg, ret>>

\* time passes
Tick ==
    /\ now + ClockStep <= MaxTicks * ClockStep
    /\ now' = now + ClockStep
    /\ UNCHANGED <<cache, req, web, cacheOp, arg, ret>>

-----------------------------------------------------------------------------
(* The server *)

NoCall == [op |-> "none"]

Init ==
    /\ now = 0
    /\ cache = [f \in CacheNames |-> NoFile]
    /\ req = [r \in 1..NumReqs |-> IdleReq]
    /\ web = FewLinks
    /\ cacheOp = NoCall
    /\ arg = NoCall
    /\ ret = NoCall

Next ==
    \/ \E r \in Reqs, brand \in Brands \cup {""} : Receive(r, brand)
    \/ \E r \in Reqs, doc \in web : SearchResolves(r, doc)
    \/ \E r \in Reqs : SearchRejects(r)
    \/ \E r \in Reqs, i \in 1..MaxLinks, res \in ScrapeResults : ScrapeSettles(r, i, res)
    \/ \E r \in Reqs : ClassifySettles(r)
    \/ Tick

Spec == Init /\ [][Next]_vars

\* one run, with up to MaxFanout links
InitRun ==
    /\ now = 0
    /\ cache = [f \in CacheNames |-> NoFile]
    /\ req = [r \in {1} |-> IdleReq]
    /\ web = ManyLinks
    /\ cacheOp = NoCall
    /\ arg = NoCall
    /\ ret = NoCall

SpecRun == InitRun /\ [][Next]_vars

-----------------------------------------------------------------------------
(* The cache helpers called directly *)

\* the values the program stores: lists of links and results
Payloads ==
    {Array(<<>>), Array(<< <<"https://", "1">> >>),
     [kind |-> "object", brand |-> "Acme", articles |-> <<>>]}

\* cacheOp.last is the last call; cacheOp.puts[file] is the most recent
\* saveToCache of file, with the time it was made
NoPut == [kind |-> "noput"]

InitCache ==
    /\ now = 0
    /\ cache = [f \in CacheNames |-> NoFile]
    /\ req = [r \in {} |-> IdleReq]
    /\ web = {}
    /\ cacheOp = [last |-> NoCall, puts |-> [f \in CacheNames |-> NoPut]]
    /\ arg = NoCall
    /\ ret = NoCall

CallSave(file, data) ==
    /\ cache' = saveToCache(cache, file, data, now)
    /\ cacheOp' = [last |-> [op |-> "save", file |-> file, at |-> now],
                   puts |-> [cacheOp.puts EXCEPT ![file] = [kind |-> "put", data |-> data, at |-> now]]]
    /\ UNCHANGED <<now, req, web, arg, ret>>

CallLoad(file) ==
    /\ cache' = loadFromCacheFiles(cache, file, now)
    /\ cacheOp' = [cacheOp EXCEPT !.last =
            [op |-> "load", file |-> file, at |-> now,
             existed |-> existsSync(cache, file),
             returned |-> loadFromCache(cache, file, now)]]
    /\ UNCHANGED <<now, req, web, arg, ret>>

NextCache ==
    \/ \E file \in CacheNames, data \in Payloads : CallSave(file, data)
    \/ \E file \in CacheNames : CallLoad(file)
    \/ Tick

SpecCache == InitCache /\ [][NextCache]_vars

-----------------------------------------------------------------------------
(* C1 *)

LastLoad == cacheOp.last.op = "load"

LastLoadPut == cacheOp.puts[cacheOp.last.file]

\* C1: a load returns the payload of the most recent save of that file if and
\* only if a file existed and the load came less than CACHE_TTL after that
\* save; a load of a file that existed and was not fresh returns null and
\* leaves no file.  (now has not advanced past the load in the states tested.)
C1_TtlInvariant ==
    (LastLoad /\ cacheOp.last.at = now) =>
        LET put == LastLoadPut
            entry == cacheOp.last.existed
            age == now - put.at
            gotPayload == put.kind = "put" /\ cacheOp.last.returned = put.data
        IN /\ gotPayload <=> (entry /\ put.kind = "put" /\ age < CACHE_TTL)
           /\ (entry /\ put.kind = "put" /\ age >= CACHE_TTL) =>
                 /\ cacheOp.last.returned = Null
                 /\ ~existsSync(cache, cacheOp.last.file)
           /\ ~entry => cacheOp.last.returned = Null

\* a load of an expired file has just returned null and removed the file
C1_Witness ==
    /\ LastLoad /\ cacheOp.last.at = now
    /\ cacheOp.last.existed
    /\ LastLoadPut.kind = "put"
    /\ now - LastLoadPut.at >= CACHE_TTL
    /\ cacheOp.last.returned = Null
    /\ ~existsSync(cache, cacheOp.last.file)

\* a load of a fresh file has just returned the payload saved last
C1_WitnessHit ==
    /\ LastLoad /\ cacheOp.last.at = now
    /\ LastLoadPut.kind = "put"
    /\ now - LastLoadPut.at < CACHE_TTL
    /\ now > LastLoadPut.at
    /\ cacheOp.last.returned = LastLoadPut.data

-----------------------------------------------------------------------------
(* C2 *)

Outbound(q) == q.nSearch + q.nScrape + q.nClassify

\* r1 has responded with a result, r2 is received in this step for the same
\* brand less than CACHE_TTL after r1 saved its result, and no other request
\* was for that brand
SecondCall(r1, r2) ==
    /\ r1 # r2
    /\ req[r1].pc = "done"
    /\ req[r1].response.status = 200
    /\ req[r2].pc = "idle"
    /\ req'[r2].pc # "idle"
    /\ req'[r2].brand = req[r1].brand
    /\ \A o \in Reqs \ {r1, r2} : req[o].brand # req[r1].brand
    /\ now - req[r1].savedAt < CACHE_TTL

\* C2: of two calls for a brand, the second received after the first responded
\* with a result and within the TTL window, the second responds at once with
\* the body the first responded with and issues no outbound call, so the two
\* together made one search request, one extraction request per link and one
\* classification call; the cache is left as it was.
C2_CacheHit ==
    [][\A r1, r2 \in Reqs :
         SecondCall(r1, r2) =>
            /\ req'[r2].pc = "done"
            /\ req'[r2].response = req[r1].response
            /\ Outbound(req'[r2]) = 0
            /\ req[r1].nSearch = 1
            /\ req[r1].nScrape = Len(req[r1].links)
            /\ req[r1].nClassify = 1
            /\ cache' = cache]_vars

\* the second call has been answered from the cache with the first call's
\* result, which holds an article
C2_Witness ==
    \E r1, r2 \in Reqs :
        /\ r1 # r2
        /\ req[r1].pc = "done" /\ req[r1].nClassify = 1
        /\ req[r1].response.status = 200
        /\ Len(req[r1].response.body.articles) = 1
        /\ req[r2].pc = "done" /\ Outbound(req[r2]) = 0
        /\ req[r2].response = req[r1].response

-----------------------------------------------------------------------------
(* C3 *)

\* the links whose extraction gave an article, in the order of links
SucceededLinks(q) ==
    LET ok(i) == q.fetched[i].kind = "article"
        idx == SelectSeq([i \in 1..Len(q.links) |-> i], ok)
    IN [j \in 1..Len(idx) |-> q.links[idx[j]]]

Urls(articles) == [j \in 1..Len(articles) |-> articles[j].url]

\* the run got its links and every extraction has settled
Extracted(q) == q.pc = "done" /\ q.brand # "" /\ q.searchOutcome # "failed" /\ Outbound(q) > 0

\* C3: whatever subset of the extractions fails and in whatever order they
\* settle, the run responds with a result whose articles are the links whose
\* extraction succeeded, in the order of the link list.
C3_PartialFailure ==
    \A r \in Reqs :
        Extracted(req[r]) =>
            /\ req[r].response.status = 200
            /\ Urls(req[r].response.body.articles) = SucceededLinks(req[r])

\* three links settled last to first, the second failed: two articles
C3_Witness ==
    \E r \in Reqs :
        /\ Extracted(req[r])
        /\ Len(req[r].links) = 3
        /\ req[r].settled = <<3, 2, 1>>
        /\ req[r].fetched[2] = Null
        /\ Len(req[r].response.body.articles) = 2

-----------------------------------------------------------------------------
(* C5 *)

\* C5: when the classification call throws, the run responds with a result
\* that holds every extracted article, each with the verdict Error.
C5_ClassifierOutage ==
    \A r \in Reqs :
        req[r].classifyOutcome = "threw" =>
            LET q == req[r]
                articles == q.response.body.articles
                got == filteredArticles(q)
            IN /\ q.response.status = 200
               /\ Len(articles) = Cardinality({i \in 1..Len(q.fetched) : q.fetched[i].kind = "article"})
               /\ \A j \in 1..Len(articles) :
                    /\ articles[j] = [kind |-> "article", url |-> got[j].url, title |-> got[j].title,
                                      content |-> got[j].content, relevance |-> Error]

\* the call threw with two articles extracted
C5_Witness ==
    \E r \in Reqs :
        /\ req[r].classifyOutcome = "threw"
        /\ req[r].response.status = 200
        /\ Len(req[r].response.body.articles) = 2
        /\ req[r].response.body.articles[2].relevance = Error

-----------------------------------------------------------------------------
(* C7 *)

\* C7: a run whose search request fails responds with the server error, has
\* made that one search request and no extraction or classification request,
\* has written no cache file, and the step in which it fails leaves the cache
\* as it was.
C7_DiscoveryFatal ==
    [][\A r \in Reqs :
         req'[r].searchOutcome = "failed" =>
            /\ req'[r].pc = "done"
            /\ req'[r].response = WentWrong
            /\ req'[r].nSearch = 1
            /\ req'[r].nScrape = 0
            /\ req'[r].nClassify = 0
            /\ req'[r].wrote = {}
            /\ (req[r].searchOutcome # "failed" => cache' = cache)]_vars

\* a search has failed and the cache holds no file for the brand
C7_Witness ==
    \E r \in Reqs :
        /\ req[r].searchOutcome = "failed"
        /\ req[r].response.status = 500
        /\ \A s \in {"search", "data"} : ~existsSync(cache, getCachePath(req[r].brand, s))

-----------------------------------------------------------------------------
(* C10 *)

NoPending(q) == \A i \in 1..Len(q.fetched) : q.fetched[i] # Pending

\* C10: once the classification call of a run is issued none of its
\* extractions is pending; the run writes its result file only when the
\* classification has returned; and a run that started extracting has not
\* responded before both.
C10_JoinBeforeClassify ==
    \A r \in Reqs :
        LET q == req[r]
            dataKey == getCachePath(q.brand, "data")
        IN /\ q.nClassify > 0 => (NoPending(q) /\ Len(q.settled) = Len(q.links))
           /\ dataKey \in q.wrote => q.classifyOutcome # "none"
           /\ (q.response # NoResponse /\ q.nScrape + q.nClassify > 0) =>
                 /\ NoPending(q)
                 /\ q.classifyOutcome # "none"
                 /\ dataKey \in q.wrote

\* a run of three links waits for its classification, all three settled
C10_Witness ==
    \E r \in Reqs :
        /\ req[r].pc = "classify"
        /\ Len(req[r].links) = 3
        /\ Len(req[r].settled) = 3

-----------------------------------------------------------------------------
(* searchGoogleNews on a cache miss, for search pages built anchor by anchor *)

MaxAnchors == 12      \* anchors on a search page

\* the anchors that can stand at position p: one wrapping an article URL of
\* its own, one that wraps none
AnchorsAt(p) ==
    {IF p % 2 = 0 THEN Wrapped(ToString(p)) ELSE WrappedBare(ToString(p)),
     IF p % 3 = 0 THEN NoHref ELSE IF p % 3 = 1 THEN PlainLink ELSE WrappedOther}

InitSearch ==
    /\ now = 0
    /\ cache = [f \in CacheNames |-> NoFile]
    /\ req = [r \in {} |-> IdleReq]
    /\ web = {}
    /\ cacheOp = NoCall
    /\ arg = [fn |-> "searchGoogleNews", query |-> "Acme", doc |-> <<>>]
    /\ ret = NoCall

AppendAnchor ==
    /\ ret = NoCall
    /\ Len(arg.doc) < MaxAnchors
    /\ \E a \in AnchorsAt(Len(arg.doc) + 1) : arg' = [arg EXCEPT !.doc = Append(@, a)]
    /\ UNCHANGED <<now, cache, req, web, cacheOp, ret>>

\* lines 104-118: the page arg.doc has arrived
CallSearchGoogleNews ==
    /\ ret = NoCall
    /\ cache' = saveToCache(cache, getCachePath(arg.query, "search"), Array(top10(arg.doc)), now)
    /\ ret' = [op |-> "returned", value |-> top10(arg.doc)]
    /\ UNCHANGED <<now, req, web, cacheOp, arg>>

NextSearch == AppendAnchor \/ CallSearchGoogleNews

SpecSearch == InitSearch /\ [][NextSearch]_vars

-----------------------------------------------------------------------------
(* C9 *)

\* the article URLs the anchors of doc wrap, in document order
Destinations(doc) ==
    LET wraps(a) == a.dest # <<>>
        as == SelectSeq(doc, wraps)
    IN [j \in 1..Len(as) |-> as[j].dest]

\* C9: searchGoogleNews returns at most 10 URLs, the first 10 (or all, if
\* fewer) wrapped destinations of the page in document order, and the list in
\* the "<query>_search" file is the list returned.
C9_LinkListBound ==
    ret # NoCall =>
        LET all == Destinations(arg.doc)
            file == cache[getCachePath(arg.query, "search")]
        IN /\ Len(ret.value) <= 10
           /\ Len(ret.value) = (IF Len(all) < 10 THEN Len(all) ELSE 10)
           /\ \A j \in 1..Len(ret.value) : ret.value[j] = all[j]
           /\ file.kind = "file"
           /\ file.data = Array(ret.value)

\* a page with more than 10 wrapped links among others: 10 returned
C9_Witness ==
    /\ ret # NoCall
    /\ Len(Destinations(arg.doc)) > 10
    /\ Len(arg.doc) > Len(Destinations(arg.doc))
    /\ Len(ret.value) = 10

-----------------------------------------------------------------------------
(* The classifiers called directly *)

MaxBatch == 2         \* texts in a batch

ScoreSamples == {35, 40, 41, 55, 90}

Min(a, b) == IF a < b THEN a ELSE b

\* an item as the endpoint documents it: the candidate labels with top first,
\* the scores descending (a tie at the top when score <= 50)
WellFormedItem(top, score) ==
    LET notTop(l) == l # top
    IN Item(<<top>> \o SelectSeq(candidate_labels, notTop),
            <<score, Min(score, 100 - score), 0, 0, 0, 0>>)

WellFormedItems ==
    {WellFormedItem(candidate_labels[k], sc) : k \in 1..Len(candidate_labels), sc \in ScoreSamples}

NullItem == [kind |-> "null"]

NoLabelsItem ==
    [kind |-> "item", hasLabels |-> FALSE, labels |-> <<>>, hasScores |-> TRUE, scores |-> <<90>>]

NoScoresItem(top) ==
    [kind |-> "item", hasLabels |-> TRUE, labels |-> <<top>>, hasScores |-> FALSE, scores |-> <<>>]

MalformedItems ==
    {NullItem, NoLabelsItem, NoScoresItem("business"), NoScoresItem("unrelated"), Item(<<>>, <<>>)}

\* answers to a batch of n texts: a failed call, bodies that are no list, lists
\* of 0..n+1 items of a few kinds, and one-item lists of every kind
BatchResponses(n) ==
    {Throw, Data([kind |-> "other"]), Data(Null)}
    \cup {Data(Array(items)) :
            items \in UNION {[1..m -> {RelevantItem, UnrelatedItem, NullItem}] : m \in 0..(n + 1)}}
    \cup {Data(Array(<<it>>)) : it \in WellFormedItems \cup MalformedItems}

SingleResponses ==
    {Throw} \cup {Data(it) : it \in WellFormedItems \cup MalformedItems}

ClassifyArgs ==
    {[fn |-> "checkRelevanceBatch", texts |-> [i \in 1..n |-> <<"t", ToString(i)>>], response |-> rsp] :
        n \in 0..MaxBatch, rsp \in BatchResponses(MaxBatch)}
    \cup {[fn |-> "checkRelevance", texts |-> << <<"t">> >>, response |-> rsp] : rsp \in SingleResponses}

InitClassify ==
    /\ now = 0
    /\ cache = [f \in CacheNames |-> NoFile]
    /\ req = [r \in {} |-> IdleReq]
    /\ web = {}
    /\ cacheOp = NoCall
    /\ arg \in ClassifyArgs
    /\ ret = NoCall

CallCheckRelevanceBatch ==
    /\ ret = NoCall
    /\ arg.fn = "checkRelevanceBatch"
    /\ ret' = [op |-> "returned", value |-> checkRelevanceBatch(arg.texts, arg.response)]
    /\ UNCHANGED <<now, cache, req, web, cacheOp, arg>>

CallCheckRelevance ==
    /\ ret = NoCall
    /\ arg.fn = "checkRelevance"
    /\ ret' = [op |-> "returned", value |-> <<checkRelevance(arg.response)>>]
    /\ UNCHANGED <<now, cache, req, web, cacheOp, arg>>

NextClassify == CallCheckRelevanceBatch \/ CallCheckRelevance

SpecClassify == InitClassify /\ [][NextClassify]_vars

-----------------------------------------------------------------------------
(* C4 *)

BatchReturned == ret # NoCall /\ arg.fn = "checkRelevanceBatch"

\* the items of the response body, <<>> when the call failed or the body is no list
ResponseItems ==
    IF arg.response.kind = "data" /\ arg.response.data.kind = "array"
    THEN arg.response.data.items ELSE <<>>

\* C4: for a batch of N texts and any response of the endpoint,
\* checkRelevanceBatch returns N verdicts, verdict i being the one for text i
\* (Error, or the verdict of item i of the response).
C4_IndexAlignment ==
    BatchReturned =>
        /\ Len(ret.value) = Len(arg.texts)
        /\ \A i \in 1..Len(ret.value) :
              \/ ret.value[i] = Error
              \/ i <= Len(ResponseItems) /\ ret.value[i] = itemVerdict(ResponseItems[i])

\* what the code does give: N Error verdicts when the call or the mapping
\* throws, otherwise as many verdicts as the response has items, verdict i
\* from item i
C4_LengthOfResponse ==
    BatchReturned =>
        \/ ret.value = Rep(Error, Len(arg.texts))
        \/ /\ Len(ret.value) = Len(ResponseItems)
           /\ \A i \in 1..Len(ret.value) : ret.value[i] = itemVerdict(ResponseItems[i])

\* two texts, a response of one item: one verdict
C4_ShortResponse ==
    /\ BatchReturned
    /\ Len(arg.texts) = 2
    /\ Len(ResponseItems) = 1
    /\ Len(ret.value) = 1

-----------------------------------------------------------------------------
(* C6 *)

\* labels and scores of equal length, one score per candidate label, in
\* descending order
WellFormed(item) ==
    /\ item.kind = "item" /\ item.hasLabels /\ item.hasScores
    /\ Len(item.labels) = Len(candidate_labels)
    /\ Len(item.scores) = Len(item.labels)
    /\ {item.labels[i] : i \in 1..Len(item.labels)} = {candidate_labels[i] : i \in 1..Len(candidate_labels)}
    /\ \A i \in 1..(Len(item.scores) - 1) : item.scores[i] >= item.scores[i + 1]

\* the first position that holds the highest score
TopIndex(item) ==
    CHOOSE i \in 1..Len(item.scores) :
        /\ \A j \in 1..Len(item.scores) : item.scores[i] >= item.scores[j]
        /\ \A j \in 1..(i - 1) : item.scores[j] > item.scores[i]

RuleVerdict(item) ==
    IF item.labels[TopIndex(item)] # "unrelated" /\ item.scores[TopIndex(item)] > 40
    THEN Yes ELSE No

\* the item the verdict at position 1 was computed from
FirstItem == IF arg.fn = "checkRelevance" THEN arg.response.data ELSE ResponseItems[1]

\* C6: for a well-formed classifier output the verdict is Relevant exactly when
\* the top label is not "unrelated" and the top score is above 0.4 (40
\* hundredths), else NotRelevant; in the batch classifier and in checkRelevance
\* of the sequential variant.  Of two labels tied at the top the one listed
\* first is the top label.
C6_RelevanceRule ==
    (/\ ret # NoCall
     /\ arg.response.kind = "data"
     /\ arg.fn = "checkRelevanceBatch" =>
            (ResponseItems # <<>> /\ \A i \in 1..Len(ResponseItems) : WellFormed(ResponseItems[i]))
     /\ arg.fn = "checkRelevance" => (arg.response.data.kind = "item" /\ WellFormed(arg.response.data)))
    => /\ ret.value[1] = RuleVerdict(FirstItem)
       /\ (FirstItem.scores[1] = 40 => ret.value[1] = No)
       /\ (FirstItem.labels[1] = "unrelated" => ret.value[1] = No)

\* a top score of exactly 0.4 for "business" gave NotRelevant
C6_Witness ==
    /\ ret # NoCall
    /\ arg.fn = "checkRelevanceBatch"
    /\ arg.response.kind = "data"
    /\ Len(ResponseItems) = 1
    /\ WellFormed(ResponseItems[1])
    /\ ResponseItems[1].labels[1] = "business"
    /\ ResponseItems[1].scores[1] = 40
    /\ ret.value = <<No>>

-----------------------------------------------------------------------------
(* scrapeArticle called directly *)

MaxParagraphs == 2    \* p elements on a page

ParagraphSamples ==
    {<<>>, <<" ">>, <<"a">>, <<"a", " ", " ", "b">>, <<"\n", "a", "\t", "\n", "b", " ">>,
     Rep("a", MaxContent - 1), Rep("a", MaxContent - 2) \o <<" ", " ", "b", "c">>}

TitleSamples == {<<>>, <<" ">>, <<"T">>, <<" ", "T", "\n">>}

ScrapeArgs ==
    {[fn |-> "scrapeArticle", url |-> <<"https://", "1">>, res |-> Throw]}
    \cup {[fn |-> "scrapeArticle", url |-> <<"https://", "1">>,
           res |-> [kind |-> "page", title |-> t, paragraphs |-> ps]] :
            t \in TitleSamples, ps \in UNION {[1..m -> ParagraphSamples] : m \in 0..MaxParagraphs}}

InitScrape ==
    /\ now = 0
    /\ cache = [f \in CacheNames |-> NoFile]
    /\ req = [r \in {} |-> IdleReq]
    /\ web = {}
    /\ cacheOp = NoCall
    /\ arg \in ScrapeArgs
    /\ ret = NoCall

\* scrapeArticle of src/server.js
CallScrapeArticle ==
    /\ ret = NoCall
    /\ ret' = [op |-> "returned", variant |-> "server.js", value |-> scrapeArticle(arg.url, arg.res)]
    /\ UNCHANGED <<now, cache, req, web, cacheOp, arg>>

\* scrapeArticle of the sequential variant
CallScrapeArticleSeq ==
    /\ ret = NoCall
    /\ ret' = [op |-> "returned", variant |-> "sequential", value |-> scrapeArticleSeq(arg.url, arg.res)]
    /\ UNCHANGED <<now, cache, req, web, cacheOp, arg>>

NextScrape == CallScrapeArticle \/ CallScrapeArticleSeq

SpecScrape == InitScrape /\ [][NextScrape]_vars

-----------------------------------------------------------------------------
(* C8 *)

GotArticle == ret # NoCall /\ ret.value.kind = "article"

NoWhitespaceRun(s) == \A i \in 1..(Len(s) - 1) : ~(IsWs(s[i]) /\ IsWs(s[i + 1]))

ContentBound(content) == Len(content) <= 500 /\ NoWhitespaceRun(content)

\* C8: the content of every article scrapeArticle returns has at most 500
\* characters and no two consecutive whitespace characters.
C8_ContentBound == GotArticle => ContentBound(ret.value.content)

\* the same, of scrapeArticle of src/server.js alone
C8_ContentBoundServer ==
    (GotArticle /\ ret.variant = "server.js") => ContentBound(ret.value.content)

\* the length bound alone, in both variants
C8_LengthBound == GotArticle => Len(ret.value.content) <= 500

\* src/server.js cut a longer text to 500 characters and collapsed a run
C8_ServerCuts ==
    /\ GotArticle /\ ret.variant = "server.js"
    /\ Len(join(arg.res.paragraphs)) > 500
    /\ ~NoWhitespaceRun(join(arg.res.paragraphs))
    /\ Len(ret.value.content) = 500

\* the sequential variant returned a content with a whitespace run
C8_SequentialRun ==
    /\ GotArticle /\ ret.variant = "sequential"
    /\ ~NoWhitespaceRun(ret.value.content)

-----------------------------------------------------------------------------
(* C11 *)

\* r ran the whole pipeline on its own: one search request, one extraction
\* request per link, one classification call
OwnPipeline(r) ==
    /\ req[r].pc = "done"
    /\ req[r].nSearch = 1
    /\ req[r].nScrape = Len(req[r].links)
    /\ req[r].nClassify = 1

\* r1 and r2 are the two runs for their brand, both missed both cache files
\* and both have finished
BothRan(r1, r2) ==
    /\ r1 # r2
    /\ req[r1].brand = req[r2].brand
    /\ OwnPipeline(r1) /\ OwnPipeline(r2)
    /\ \A o \in Reqs \ {r1, r2} : req[o].brand # req[r1].brand

DataFile(brand) == cache[getCachePath(brand, "data")]

\* C11: nothing stops two overlapping runs for a brand from both missing the
\* cache and both running the pipeline.  The run that saves its result replaces
\* the whole <brand>_data file with it, and once both have finished the file
\* holds the result one of the two responded with, that of the later writer
\* when they wrote at different times: never a mixture of the two.
C11_NoSingleFlight ==
    [][/\ \A r \in Reqs :
            (req[r].pc = "classify" /\ req'[r].pc = "done") =>
                cache' = [cache EXCEPT ![getCachePath(req[r].brand, "data")] =
                             [kind |-> "file", timestamp |-> now,
                              data |-> req'[r].response.body]]
       /\ \A r1, r2 \in Reqs :
            (BothRan(r1, r2))' =>
                /\ DataFile(req[r1].brand)'.kind = "file"
                /\ DataFile(req[r1].brand)'.data \in
                       {req'[r1].response.body, req'[r2].response.body}
                /\ req'[r1].savedAt < req'[r2].savedAt =>
                       /\ DataFile(req[r1].brand)'.data = req'[r2].response.body
                       /\ DataFile(req[r1].brand)'.timestamp = req'[r2].savedAt]_vars

\* two runs for one brand have each made their own search, extraction and
\* classification calls, have responded with different results, and the file
\* holds the result of the second, which saved later, but less than CACHE_TTL
\* after the first (so that the second started before the first had saved)
C11_Witness ==
    \E r1, r2 \in Reqs :
        /\ BothRan(r1, r2)
        /\ req[r1].nScrape = 1 /\ req[r2].nScrape = 1
        /\ req[r1].response # req[r2].response
        /\ req[r1].savedAt < req[r2].savedAt
        /\ req[r2].savedAt - req[r1].savedAt < CACHE_TTL
        /\ DataFile(req[r1].brand).data = req[r2].response.body

-----------------------------------------------------------------------------
(* C12: one request, the cache directory as an earlier process left it *)

\* The cache directory outlives the process (line 72 creates it only when it
\* is absent); a file in it may hold text that JSON.parse rejects.
InitCorrupt ==
    /\ now = 0
    /\ cache \in [CacheNames -> {NoFile, Corrupt}]
    /\ req = [r \in {1} |-> IdleReq]
    /\ web = ManyLinks
    /\ cacheOp = NoCall
    /\ arg = NoCall
    /\ ret = NoCall

SpecCorrupt == InitCorrupt /\ [][Next]_vars

SearchFile(brand) == cache[getCachePath(brand, "search")]

\* r is received in this step with a brand, and its run reads a cache file
\* that does not parse: the result file, or the link file after the result
\* file gave nothing
MeetsCorrupt(r) ==
    /\ req[r].pc = "idle"
    /\ req'[r].pc # "idle"
    /\ req'[r].brand # ""
    /\ \/ DataFile(req'[r].brand) = Corrupt
       \/ /\ ~Truthy(loadFromCache(cache, getCachePath(req'[r].brand, "data"), now))
          /\ SearchFile(req'[r].brand) = Corrupt

\* C12: a run that meets a cache file that does not parse takes it for a
\* miss: it goes on to the pipeline (suspended at the search request, the
\* extraction requests or the classification call) and has not ended with an
\* error.
C12_CorruptIsMiss ==
    [][\A r \in Reqs :
         MeetsCorrupt(r) =>
            /\ req'[r].pc \in {"search", "scrape", "classify"}
            /\ req'[r].response = NoResponse]_vars

\* what the code does instead: the handler has rejected with no response sent
\* (result file corrupt), or has answered 500 without a search request (link
\* file corrupt)
C12_Rejected ==
    /\ req[1].pc = "rejected"
    /\ req[1].response = NoResponse
    /\ DataFile(req[1].brand) = Corrupt

C12_ServerError ==
    /\ req[1].pc = "done"
    /\ req[1].response = WentWrong
    /\ req[1].nSearch = 0
    /\ SearchFile(req[1].brand) = Corrupt

-----------------------------------------------------------------------------
(* C13 *)

\* an item that is no object, or lacks labels or scores
LacksField(item) == item.kind = "null" \/ ~item.hasLabels \/ ~item.hasScores

\* the call failed as a whole: a network error, or a response that is not a
\* list of one well-formed item per text
CallFailed ==
    \/ arg.response.kind = "throw"
    \/ /\ arg.fn = "checkRelevanceBatch"
       /\ \/ arg.response.data.kind # "array"
          \/ Len(ResponseItems) # Len(arg.texts)
          \/ \E i \in 1..Len(ResponseItems) : LacksField(ResponseItems[i])
    \/ /\ arg.fn = "checkRelevance"
       /\ LacksField(arg.response.data)

\* C13: when the classification call fails as a whole (network error, body
\* that is no list, list of the wrong length, item without labels or scores),
\* the classifier returns the Error verdict for every text of the batch, never
\* a mixture and never an exception.
C13_AllOrNothing ==
    (ret # NoCall /\ CallFailed) => ret.value = Rep(Error, Len(arg.texts))

\* what the code does give on a failed call
C13_NetworkError ==
    /\ BatchReturned /\ arg.response.kind = "throw" /\ Len(arg.texts) = 2
    /\ ret.value = <<Error, Error>>

\* an item without scores whose first label is "unrelated": verdict No
C13_NoScoresVerdict ==
    /\ BatchReturned /\ Len(arg.texts) = 1
    /\ ResponseItems = <<NoScoresItem("unrelated")>>
    /\ ret.value = <<No>>

\* the sequential variant, an item without scores: verdict No
C13_SequentialNoScores ==
    /\ ret # NoCall /\ arg.fn = "checkRelevance"
    /\ arg.response = Data(NoScoresItem("business"))
    /\ ret.value = <<No>>

-----------------------------------------------------------------------------
(* C14 *)

Verdicts == {Yes, No, Error}

HasVerdict(article) == "relevance" \in DOMAIN article /\ article.relevance \in Verdicts

AllHaveVerdict(result) == \A i \in 1..Len(result.articles) : HasVerdict(result.articles[i])

\* C14: every article of every result the handler responds with, and of every
\* result in a <brand>_data file, has a relevance that is one of the three
\* verdicts.
C14_OneVerdict ==
    /\ \A r \in Reqs :
          (req[r].pc = "done" /\ req[r].response.status = 200) =>
              AllHaveVerdict(req[r].response.body)
    /\ \A b \in Brands :
          DataFile(b).kind = "file" => AllHaveVerdict(DataFile(b).data)

\* the run extracted an article, the endpoint answered with an empty list, and
\* the result responded with and stored holds the article with no relevance
C14_MissingVerdict ==
    \E r \in Reqs :
        /\ req[r].pc = "done" /\ req[r].response.status = 200
        /\ req[r].classifyOutcome = "returned"
        /\ Len(req[r].response.body.articles) = 1
        /\ "relevance" \notin DOMAIN req[r].response.body.articles[1]
        /\ DataFile(req[r].brand).data = req[r].response.body

-----------------------------------------------------------------------------
(* C15 *)

EmptyResult(brand) == [kind |-> "object", brand |-> brand, articles |-> <<>>]

\* r's search gave a list of links and r has ended with no article extracted
EndedWithoutArticle(r) ==
    /\ req[r].pc = "done"
    /\ req[r].searchOutcome = "ok"
    /\ filteredArticles(req[r]) = <<>>

\* C15: a run whose search gave no link, or whose every extraction failed,
\* responds 200 with the brand and an empty article list, whatever the
\* classification endpoint did with the empty batch, and that result is in the
\* <brand>_data file.
C15_EmptyNotError ==
    \A r \in Reqs :
        EndedWithoutArticle(r) =>
            /\ req[r].response = [status |-> 200, body |-> EmptyResult(req[r].brand)]
            /\ req[r].nClassify = 1
            /\ DataFile(req[r].brand) =
                   [kind |-> "file", timestamp |-> req[r].savedAt,
                    data |-> EmptyResult(req[r].brand)]

\* two links, both extractions failed, the classification call for the empty
\* batch threw, and the run has responded
C15_Witness ==
    \E r \in Reqs :
        /\ EndedWithoutArticle(r)
        /\ Len(req[r].links) = 2
        /\ req[r].classifyOutcome = "threw"
        /\ req[r].response.status = 200

\* no link found, the endpoint answered the empty batch, and the run has responded
C15_NoLinks ==
    \E r \in Reqs :
        /\ EndedWithoutArticle(r)
        /\ Len(req[r].links) = 0
        /\ req[r].classifyOutcome = "returned"
        /\ req[r].response.status = 200

-----------------------------------------------------------------------------
(* C16 *)

\* the <brand>_search file exists and is younger than CACHE_TTL
SearchFresh(brand) ==
    /\ SearchFile(brand).kind = "file"
    /\ CacheFresh(SearchFile(brand).timestamp, now)

DataFresh(brand) ==
    /\ DataFile(brand).kind = "file"
    /\ CacheFresh(DataFile(brand).timestamp, now)

\* r is received in this step with a brand and finds no valid result file
MissesData(r) ==
    /\ req[r].pc = "idle"
    /\ req'[r].pc # "idle"
    /\ req'[r].brand # ""
    /\ ~DataFresh(req'[r].brand)

\* C16: searchGoogleNews makes at most one search request per call.  With a
\* valid <brand>_search file, an empty list included, it makes none and
\* returns the stored list as it is, so a run that misses the result file but
\* hits the link file goes on to extraction and classification with those
\* links and without a search request, leaving the link file as it was.
\* Without one it makes the request, and when the request resolves the list it
\* returns is in the file, stamped with the current time, before the run goes on.
C16_DiscoveryCached ==
    [][\A r \in Reqs :
         /\ req'[r].nSearch <= 1
         /\ (MissesData(r) /\ SearchFresh(req'[r].brand)) =>
               /\ req'[r].nSearch = 0
               /\ req'[r].pc \in {"scrape", "classify"}
               /\ req'[r].links = SearchFile(req'[r].brand).data.items
               /\ req'[r].nScrape = Len(req'[r].links)
               /\ cache'[getCachePath(req'[r].brand, "search")] = SearchFile(req'[r].brand)
         /\ (MissesData(r) /\ ~SearchFresh(req'[r].brand)) =>
               /\ req'[r].nSearch = 1
               /\ req'[r].pc = "search"
         /\ (req[r].pc = "search" /\ req'[r].pc \in {"scrape", "classify"}) =>
               /\ SearchFile(req[r].brand)' =
                      [kind |-> "file", timestamp |-> now, data |-> Array(req'[r].links)]]_vars

\* the first run's search found no link and stored the empty list; the second
\* run, received before the first had saved a result, took the empty list
\* from the file and has finished with no search request of its own
C16_Witness ==
    \E r1, r2 \in Reqs :
        /\ r1 # r2
        /\ req[r1].brand = req[r2].brand
        /\ req[r1].nSearch = 1 /\ req[r1].searchOutcome = "ok" /\ req[r1].links = <<>>
        /\ req[r2].pc = "done" /\ req[r2].nSearch = 0 /\ req[r2].nClassify = 1
        /\ req[r2].links = <<>>
        /\ req[r2].response.status = 200

\* the same with a link: the second run extracted and classified the stored
\* link with no search request
C16_WitnessLink ==
    \E r1, r2 \in Reqs :
        /\ r1 # r2
        /\ req[r1].brand = req[r2].brand
        /\ req[r1].nSearch = 1 /\ Len(req[r1].links) = 1
        /\ req[r2].pc = "done" /\ req[r2].nSearch = 0
        /\ req[r2].nScrape = 1 /\ req[r2].nClassify = 1
        /\ req[r2].links = req[r1].links

-----------------------------------------------------------------------------
(* C17 *)

OnlyWhitespace(s) == \A i \in 1..Len(s) : IsWs(s[i])

\* C17: every article scrapeArticle returns has a title that is not empty and
\* a content that is neither empty nor made of whitespace only.
C17_NoContentNoArticle ==
    GotArticle =>
        /\ ret.value.title # <<>>
        /\ ~OnlyWhitespace(ret.value.content)

\* the weaker property the code does have: neither field is the empty string
C17_NeitherEmpty ==
    GotArticle => (ret.value.title # <<>> /\ ret.value.content # <<>>)

\* src/server.js, a page with a title and two p elements without text: the
\* article's content is the single space join put between them
C17_SpaceContent ==
    /\ GotArticle /\ ret.variant = "server.js"
    /\ arg.res.paragraphs = << <<>>, <<>> >>
    /\ ret.value.content = <<" ">>

-----------------------------------------------------------------------------
(* C18: the cache helpers called directly while a request is served *)

InitCacheRun ==
    /\ now = 0
    /\ cache = [f \in CacheNames |-> NoFile]
    /\ req = [r \in {1} |-> IdleReq]
    /\ web = FewLinks
    /\ cacheOp = [last |-> NoCall, puts |-> [f \in CacheNames |-> NoPut]]
    /\ arg = NoCall
    /\ ret = NoCall

\* a list of links under <brand>_search, a result under <brand>_data
PayloadsOf(file) ==
    {data \in Payloads : (data.kind = "array") <=> (file = getCachePath(file[1], "search"))}

NextCacheRun ==
    \/ Next
    \/ \E file \in CacheNames : \E data \in PayloadsOf(file) : CallSave(file, data)
    \/ \E file \in CacheNames : CallLoad(file)

SpecCacheRun == InitCacheRun /\ [][NextCacheRun]_vars

\* this step is a call of loadFromCache
LoadStep == cacheOp' # cacheOp /\ cacheOp'.last.op = "load"

\* r is received in this step and answered from the <brand>_data file
ServedFromCache(r) ==
    /\ req[r].pc = "idle"
    /\ req'[r].pc = "done"
    /\ req'[r].response.status = 200

\* C18: loadFromCache never touches a file other than the one it is asked for;
\* when it returns the stored data it leaves that file as it is, timestamp
\* included, and when there is no file it leaves the directory as it is; so
\* whether a file is still valid depends on the time of its last save alone,
\* however often it was read.  A request answered from the cache makes no
\* outbound call and writes nothing to the cache.
C18_ReadsDoNotRefresh ==
    [][/\ LoadStep =>
            LET file == cacheOp'.last.file
            IN /\ \A other \in CacheNames \ {file} : cache'[other] = cache[other]
               /\ cacheOp'.last.returned # Null => cache' = cache
               /\ ~cacheOp'.last.existed => cache' = cache
               /\ cacheOp'.last.existed =>
                     /\ cacheOp'.last.returned # Null <=> now - cache[file].timestamp < CACHE_TTL
                     /\ cacheOp'.last.returned # Null => cacheOp'.last.returned = cache[file].data
       /\ \A r \in Reqs :
            ServedFromCache(r) =>
               /\ cache' = cache
               /\ req'[r].wrote = {}
               /\ Outbound(req'[r]) = 0
               /\ req'[r].response.body = DataFile(req'[r].brand).data]_vars

\* a result file saved earlier has been read by a request, which was answered
\* from it, and then by a direct load that returned its data; the file still
\* carries the time of its save
C18_Witness ==
    /\ req[1].pc = "done" /\ req[1].response.status = 200
    /\ Outbound(req[1]) = 0
    /\ LastLoad /\ cacheOp.last.file = getCachePath(req[1].brand, "data")
    /\ cacheOp.last.returned = req[1].response.body
    /\ DataFile(req[1].brand).kind = "file"
    /\ DataFile(req[1].brand).timestamp < cacheOp.last.at
    /\ DataFile(req[1].brand).data = req[1].response.body

-----------------------------------------------------------------------------
(* C19 *)

\* r has responded with a result that has no article, or whose articles all
\* carry the Error verdict
Degraded(r) ==
    /\ req[r].pc = "done"
    /\ req[r].response.status = 200
    /\ \A i \in 1..Len(req[r].response.body.articles) :
          /\ "relevance" \in DOMAIN req[r].response.body.articles[i]
          /\ req[r].response.body.articles[i].relevance = Error

\* r1 has responded with a result it saved, r2 is received in this step for
\* the same brand, and no other request was for that brand
LaterCall(r1, r2) ==
    /\ r1 # r2
    /\ req[r1].pc = "done"
    /\ req[r1].response.status = 200
    /\ req[r1].savedAt >= 0
    /\ req[r2].pc = "idle"
    /\ req'[r2].pc # "idle"
    /\ req'[r2].brand = req[r1].brand
    /\ \A o \in Reqs \ {r1, r2} : req[o].brand # req[r1].brand

\* C19: a degraded result (classification failed, or no article) is cached
\* like any other: a request for the brand received less than CACHE_TTL after
\* it was saved is answered at once with the same degraded result and makes no
\* search, extraction or classification call; one received CACHE_TTL or more
\* after finds the file expired, removes it and starts the pipeline again
\* with a search request.
C19_DegradedCached ==
    [][\A r1, r2 \in Reqs :
         (LaterCall(r1, r2) /\ Degraded(r1)) =>
            IF now - req[r1].savedAt < CACHE_TTL
            THEN /\ req'[r2].pc = "done"
                 /\ req'[r2].response = req[r1].response
                 /\ Outbound(req'[r2]) = 0
                 /\ cache' = cache
            ELSE /\ req'[r2].pc = "search"
                 /\ req'[r2].nSearch = 1
                 /\ cache'[getCachePath(req[r1].brand, "data")] = NoFile]_vars

\* the first run's classification call threw, its article carries Error; the
\* second request was answered with the same result with no outbound call
C19_Witness ==
    \E r1, r2 \in Reqs :
        /\ r1 # r2
        /\ Degraded(r1) /\ req[r1].classifyOutcome = "threw"
        /\ Len(req[r1].response.body.articles) = 1
        /\ req[r2].pc = "done" /\ Outbound(req[r2]) = 0
        /\ req[r2].response = req[r1].response

\* after the degraded result expired the second request ran the pipeline
\* again and classified
C19_RetriedAfterExpiry ==
    \E r1, r2 \in Reqs :
        /\ r1 # r2
        /\ Degraded(r1) /\ req[r1].classifyOutcome = "threw"
        /\ req[r2].pc = "done" /\ req[r2].brand = req[r1].brand
        /\ req[r2].nClassify = 1
        /\ req[r2].savedAt - req[r1].savedAt >= CACHE_TTL

-----------------------------------------------------------------------------
(* C20: every outbound call settles *)

\* an issued search request resolves or rejects, every issued extraction
\* request settles, an issued classification call settles
Settles ==
    /\ WF_vars(\E r \in Reqs : (\E doc \in web : SearchResolves(r, doc)) \/ SearchRejects(r))
    /\ WF_vars(\E r \in Reqs, i \in 1..MaxLinks, res \in ScrapeResults : ScrapeSettles(r, i, res))
    /\ WF_vars(\E r \in Reqs : ClassifySettles(r))

SpecCorruptFair == InitCorrupt /\ [][Next]_vars /\ Settles

\* the same with the cache directory empty at the start
SpecRunFair == InitRun /\ [][Next]_vars /\ Settles

\* C20: provided every outbound call settles, a request that has been
\* received is eventually sent a response, and a response once sent is the
\* only one: it is never replaced by another.
C20_AnsweredOnce ==
    /\ (req[1].pc # "idle") ~> (req[1].response # NoResponse)
    /\ [][req[1].response # NoResponse => req'[1].response = req[1].response]_vars

\* the handler has ended and no response was sent, nor will be
C20_NeverAnswered ==
    /\ req[1].pc = "rejected"
    /\ req[1].response = NoResponse
    /\ ~ENABLED Next

=============================================================================
